---- MODULE Spec2Model ----
(***************************************************************************)
(* A state-machine model of the documentation builder's client-side        *)
(* persistence helpers and auth hook:                                      *)
(*   - the IndexedDB asset store (open/memoise, runTransaction, CRUD),     *)
(*   - the backup utility (auto-backup timer with retention, restore),     *)
(*   - the auth hook's signIn / signUp retry loops.                        *)
(* Each component has its own specification over the shared variables.     *)
(***************************************************************************)
EXTENDS Integers, Sequences, FiniteSets, TLC

(***************************************************************************)
(* Bounds of the model.                                                    *)
(***************************************************************************)
MaxCalls == 2
MaxFaults == 1
MaxTimers == 3
MaxClock == 13
MaxAdvance == 2
BackupStartClock == 5
MaxDocs == 2
MaxAuthCalls == 1
MaxImports == 1
MaxBlobSize == 3
MaxSessionChanges == 2

(***************************************************************************)
(* Program constants.                                                      *)
(***************************************************************************)
DB_VERSION == 1
STORE_NAME == "assets"
MaxAutoBackups == 5
DefaultIntervalMinutes == 10
MaxAttempts == 3
BackoffBaseMs == 400
StatusServiceUnavailable == 503

VARIABLES
    hasIndexedDB,      \* typeof indexedDB !== "undefined" in this environment
    dbVersion,         \* version of the database on disk (0: it does not exist)
    objectStoreNames,  \* the object stores of the database on disk
    dbPromise,         \* the module-level memoised promise (id 0: null)
    promisesCreated,   \* how many promises openDatabase has constructed
    openRequests,      \* how many indexedDB.open requests have been issued
    persisted,         \* what earlier sessions left in the "assets" object store
    store,             \* committed contents of the "assets" object store
    calls,             \* the asset-store operations issued so far, in call order
    clock,             \* Date.now()
    generated,         \* how many ids generateId has produced
    faults,            \* failures the environment has injected so far
    imports,           \* the importBackup / importDocument calls made so far
    codec,             \* a blob on its way through blobToDataUrl and dataUrlToBlob
    hook,              \* useAuth: the component's state and its subscription
    authBackend,       \* the auth client: its session, getSession, its event queue
    documents,         \* the documents in localStorage (getDocuments / saveDocument)
    localStorage,      \* the other localStorage items: key -> value
    autoBackupInterval,\* the module-level timer handle (0: null)
    timers,            \* the interval timers that are active: id -> delay in ms
    timersCreated,     \* how many timers setInterval has created
    written,           \* the timestamps of all auto-backup snapshots written so far
    lastTick,          \* the timer that ran the last tick, and the handle held then
    restored,          \* the arguments and effects of the last restoreBackup
    authCalls          \* the signIn / signUp calls made so far

storeVars == <<hasIndexedDB, dbVersion, objectStoreNames, dbPromise, promisesCreated,
               openRequests, persisted, store, calls, clock, generated, faults>>

backupVars == <<localStorage, autoBackupInterval, timers, timersCreated, written, lastTick>>

restoreVars == <<documents, restored>>

authVars == <<authCalls>>

importVars == <<imports>>

codecVars == <<codec>>

hookVars == <<hook, authBackend>>

\* the state of the file import functions, the data URL functions and useAuth
auxVars == <<importVars, codecVars, hookVars>>

vars == <<storeVars, backupVars, restoreVars, authVars, auxVars>>

(***************************************************************************)
(* JavaScript values: undefined, null, or a value.                         *)
(***************************************************************************)
Undefined == <<"undefined">>
Null == <<"null">>
Val(v) == <<"value", v>>
IsNullish(x) == x = Undefined \/ x = Null
\* x ?? y
Coalesce(x, y) == IF IsNullish(x) THEN y ELSE x
\* truthiness of an optional string: undefined, null and "" are falsy
TruthyStr(x) == IF IsNullish(x) THEN FALSE ELSE x[2] # ""
\* x || y on optional strings
OrStr(x, y) == IF TruthyStr(x) THEN x ELSE y

(***************************************************************************)
(* Inputs: blobs, option objects, ids.                                     *)
(***************************************************************************)
\* blob handles, and what each blob is
PlainBlob == "PlainBlob"
PngFile == "PngFile"
NoFile == "NoFile"
Blob(handle) ==
    CASE handle = PlainBlob -> [isFile |-> FALSE, name |-> "", type |-> "", size |-> 1]
      [] handle = PngFile -> [isFile |-> TRUE, name |-> "f.png", type |-> "image/png", size |-> 2]
      [] OTHER -> [isFile |-> FALSE, name |-> "", type |-> "", size |-> 0]

NoOptions ==
    [id |-> Undefined, name |-> Undefined, type |-> Undefined,
     createdAt |-> Undefined, updatedAt |-> Undefined]

CallerIds == {"", "a"}
GenIdNames == <<"g1", "g2", "g3", "g4", "g5", "g6">>
Keys == CallerIds \cup {GenIdNames[n] : n \in 1..MaxCalls}

\* the (file, options) arguments saveAsset is called with
SaveInputs ==
    << [file |-> PngFile, options |-> NoOptions],
       [file |-> PlainBlob, options |-> [NoOptions EXCEPT !.id = Val("a")]],
       [file |-> PngFile,
        options |-> [NoOptions EXCEPT !.id = Val("a"), !.name = Val("n"),
                                      !.type = Val("text/plain"),
                                      !.createdAt = Val(0), !.updatedAt = Val(0)]],
       [file |-> PlainBlob, options |-> [NoOptions EXCEPT !.id = Val("")]] >>

\* the arguments of a call (calls other than saveAsset carry input 0)
FileOf(call) == IF call.input = 0 THEN NoFile ELSE SaveInputs[call.input].file
OptionsOf(call) == IF call.input = 0 THEN NoOptions ELSE SaveInputs[call.input].options

EmptyStore == [k \in Keys |-> Undefined]

\* a store an earlier session saved one asset to, under the id "a"
OldRecord ==
    [id |-> "a", name |-> "f.png", type |-> "image/png", size |-> 2,
     createdAt |-> 1, updatedAt |-> 1, blob |-> PngFile]
\* the record an earlier saveAsset(blob, {id: ""}) left
OldEmptyIdRecord ==
    [id |-> "", name |-> "asset", type |-> "application/octet-stream", size |-> 1,
     createdAt |-> 1, updatedAt |-> 1, blob |-> PlainBlob]
OldStore == [EmptyStore EXCEPT !["a"] = Val(OldRecord), ![""] = Val(OldEmptyIdRecord)]

(***************************************************************************)
(* getIndexedDB / openDatabase (memoised promise).                         *)
(***************************************************************************)
NotSupportedError == "IndexedDB is not supported in this environment."

NullPromise == [id |-> 0, state |-> "null", error |-> ""]

\* mutation of GetIndexedDBThrows: the capability check is missing
GetIndexedDBThrows_Never(has) == FALSE

\* getIndexedDB: throws when the global is missing
GetIndexedDBThrows(has) == ~has

\* mutation of OpenDatabase: a rejected memoised promise is replaced by a new open
OpenDatabase_RetryAfterFailure(dbp, has, created) ==
    IF dbp.id # 0 /\ dbp.state # "rejected"
    THEN [promise |-> dbp, created |-> 0, opened |-> 0]
    ELSE IF GetIndexedDBThrows(has)
         THEN [promise |-> [id |-> created + 1, state |-> "rejected", error |-> NotSupportedError],
               created |-> 1, opened |-> 0]
         ELSE [promise |-> [id |-> created + 1, state |-> "pending", error |-> ""],
               created |-> 1, opened |-> 1]

\* openDatabase: the promise it returns, and what it did to get it
OpenDatabase(dbp, has, created) ==
    IF dbp.id # 0
    THEN [promise |-> dbp, created |-> 0, opened |-> 0]
    ELSE IF GetIndexedDBThrows(has)
         THEN [promise |-> [id |-> created + 1, state |-> "rejected", error |-> NotSupportedError],
               created |-> 1, opened |-> 0]
         ELSE [promise |-> [id |-> created + 1, state |-> "pending", error |-> ""],
               created |-> 1, opened |-> 1]

(***************************************************************************)
(* Calls.                                                                  *)
(***************************************************************************)
NewCall(op, input, id, now, promise) ==
    [op |-> op, input |-> input, id |-> id, now |-> now,
     awaited |-> promise,   \* id of the promise `await openDatabase()` waits on
     pc |-> "awaitDb",
     req |-> "",            \* the pending request of the body
     txState |-> "none",    \* none / active / finished
     txResult |-> "",       \* committed / aborted
     txError |-> Undefined, \* tx.error
     writes |-> Undefined,  \* the transaction's uncommitted view of the store
     record |-> Undefined,  \* saveAsset's record
     result |-> Undefined,  \* what the executor returned
     reqFailed |-> "",      \* the error of the body's failed request
     settle |-> "pending",  \* the state of the promise returned to the caller
     value |-> Undefined,
     error |-> ""]

\* the mode each operation passes to runTransaction
Mode(op) == IF op \in {"get", "list"} THEN "readonly" ELSE "readwrite"

CallIds == 1..Len(calls)
Settled(c) == calls[c].settle # "pending"

\* a continuation of `await openDatabase()` is queued as a microtask
MicrotaskPending ==
    /\ dbPromise.state \in {"resolved", "rejected"}
    /\ \E c \in CallIds : calls[c].pc = "awaitDb"

\* the transaction of call c may run: every transaction created before it that
\* conflicts with it (either one read-write) has finished
CanRun(c) ==
    \A d \in 1..(c - 1) :
        calls[d].txState = "active" =>
            (Mode(calls[d].op) = "readonly" /\ Mode(calls[c].op) = "readonly")

\* the contents call c's transaction reads
View(call) == IF call.writes = Undefined THEN store ELSE call.writes[2]

Meta(r) ==
    [id |-> r.id, name |-> r.name, type |-> r.type, size |-> r.size,
     createdAt |-> r.createdAt, updatedAt |-> r.updatedAt]

\* saveAsset lines 142-153
BuildRecord(call, existing) ==
    LET o == OptionsOf(call)
        f == Blob(FileOf(call))
        createdAt == Coalesce(Coalesce(o.createdAt,
                                       IF IsNullish(existing) THEN Undefined
                                       ELSE Val(existing[2].createdAt)),
                              Val(call.now))
        updatedAt == Coalesce(o.updatedAt, Val(call.now))
    IN [id |-> call.id,
        name |-> OrStr(o.name, IF f.isFile THEN Val(f.name) ELSE Val("asset"))[2],
        type |-> OrStr(o.type, OrStr(Val(f.type), Val("application/octet-stream")))[2],
        size |-> f.size,
        createdAt |-> createdAt[2],
        updatedAt |-> updatedAt[2],
        blob |-> FileOf(call)]

\* mutation of BodySucceeded: the promise is resolved as soon as the body returns
BodySucceeded_ResolveEarly(call, result) ==
    [call EXCEPT !.pc = "bodyDone", !.req = "", !.result = result,
                 !.settle = "resolved", !.value = result]

\* runTransaction lines 85-89: the body returned; the transaction's handlers are set
BodySucceeded(call, result) ==
    [call EXCEPT !.pc = "bodyDone", !.req = "", !.result = result]

\* IDBTransaction.abort(): throws InvalidStateError once the transaction has finished
TxAbortThrows(call) == call.txState = "finished"

\* runTransaction lines 90-93: the body rejected with `error`
BodyRejected(call, error) ==
    IF TxAbortThrows(call)
    THEN [call EXCEPT !.pc = "catchThrew", !.req = ""]
    ELSE [call EXCEPT !.pc = "settled", !.req = "", !.txState = "finished",
                      !.txResult = "aborted", !.writes = Undefined,
                      !.settle = "rejected", !.error = error]

\* tx.oncomplete (line 86)
OnComplete(call) ==
    [call EXCEPT !.pc = "settled", !.settle = "resolved", !.value = call.result,
                 !.result = Undefined]

\* tx.onabort (line 87)
OnAbort(call) ==
    [call EXCEPT !.pc = "settled", !.settle = "rejected",
                 !.error = IF call.txError = Undefined THEN "Transaction aborted"
                           ELSE call.txError[2]]

\* the executor runs up to its first request
StartExecutor(call) ==
    CASE call.op = "save" ->
            IF TruthyStr(OptionsOf(call).id)
            THEN [call EXCEPT !.req = "get"]
            ELSE [call EXCEPT !.req = "put",
                              !.record = Val(BuildRecord(call, Undefined))]
      [] call.op = "get" -> [call EXCEPT !.req = "get"]
      [] call.op = "delete" -> [call EXCEPT !.req = "delete"]
      [] call.op = "list" -> [call EXCEPT !.req = "getAll"]
      [] call.op = "clear" -> [call EXCEPT !.req = "clear"]

\* runTransaction lines 79-84 once the database is there
StartTransaction(call) ==
    StartExecutor([call EXCEPT !.pc = "request", !.txState = "active"])

\* mutation of GetAssetResult: the store's undefined is passed through
GetAssetResult_NoNull(result) == result

\* getAsset line 188: result ?? null
GetAssetResult(result) == Coalesce(result, Null)

\* the pending request of the call succeeded: its onsuccess handler and the
\* continuation of the executor
RequestSucceeded(call) ==
    LET view == View(call) IN
    CASE call.op = "save" /\ call.req = "get" ->
            [call EXCEPT !.req = "put",
                         !.record = Val(BuildRecord(call, view[call.id]))]
      [] call.op = "save" /\ call.req = "put" ->
            BodySucceeded([call EXCEPT !.record = Undefined, !.writes =
                               Val([view EXCEPT ![call.record[2].id] = call.record])],
                          Val(Meta(call.record[2])))
      [] call.op = "get" ->
            BodySucceeded(call, GetAssetResult(view[call.id]))
      [] call.op = "delete" ->
            BodySucceeded([call EXCEPT !.writes = Val([view EXCEPT ![call.id] = Undefined])],
                          Undefined)
      [] call.op = "list" ->
            BodySucceeded(call,
                Val({Meta(view[k][2]) : k \in {j \in Keys : view[j] # Undefined}}))
      [] call.op = "clear" ->
            BodySucceeded([call EXCEPT !.writes = Val(EmptyStore)], Undefined)

(***************************************************************************)
(* The operations of the asset store: the synchronous part of each call.   *)
(***************************************************************************)
Issue(op, input, id, now) ==
    LET od == OpenDatabase(dbPromise, hasIndexedDB, promisesCreated) IN
    /\ Len(calls) < MaxCalls
    /\ dbPromise' = od.promise
    /\ promisesCreated' = promisesCreated + od.created
    /\ openRequests' = openRequests + od.opened
    /\ calls' = Append(calls, NewCall(op, input, id, now, od.promise.id))
    /\ UNCHANGED <<hasIndexedDB, dbVersion, objectStoreNames, persisted, store, faults>>
    /\ UNCHANGED <<backupVars, restoreVars, authVars, auxVars>>

SaveAsset ==
    \E input \in 1..Len(SaveInputs) :
        LET options == SaveInputs[input].options
            fresh == IsNullish(options.id)
            id == IF fresh THEN GenIdNames[generated + 1] ELSE options.id[2]
        IN /\ clock' = clock + 1
           /\ generated' = IF fresh THEN generated + 1 ELSE generated
           /\ Issue("save", input, id, clock')

GetAsset ==
    \E id \in CallerIds :
        /\ Issue("get", 0, id, 0)
        /\ UNCHANGED <<clock, generated>>

DeleteAsset ==
    \E id \in {"a"} :
        /\ Issue("delete", 0, id, 0)
        /\ UNCHANGED <<clock, generated>>

ListAllAssets ==
    /\ Issue("list", 0, "", 0)
    /\ UNCHANGED <<clock, generated>>

ClearAllAssets ==
    /\ Issue("clear", 0, "", 0)
    /\ UNCHANGED <<clock, generated>>

(***************************************************************************)
(* Continuations and events.                                               *)
(***************************************************************************)
\* the continuation of `await openDatabase()`, in call order
DbContinue ==
    \E c \in CallIds :
        /\ calls[c].pc = "awaitDb"
        /\ \A d \in 1..(c - 1) : calls[d].pc # "awaitDb"
        /\ dbPromise.state \in {"resolved", "rejected"}
        /\ calls' = [calls EXCEPT ![c] =
                IF dbPromise.state = "resolved"
                THEN StartTransaction(@)
                ELSE [@ EXCEPT !.pc = "settled", !.settle = "rejected",
                               !.error = dbPromise.error]]
        /\ UNCHANGED <<persisted, hasIndexedDB, dbVersion, objectStoreNames, dbPromise, promisesCreated,
                       openRequests, store, clock, generated, faults>>
        /\ UNCHANGED <<backupVars, restoreVars, authVars, auxVars>>

\* request.onupgradeneeded (lines 50-55)
OnUpgradeNeeded ==
    /\ dbPromise.state = "pending"
    /\ dbVersion < DB_VERSION
    /\ dbVersion' = DB_VERSION
    /\ objectStoreNames' = IF STORE_NAME \in objectStoreNames THEN objectStoreNames
                           ELSE objectStoreNames \cup {STORE_NAME}
    /\ UNCHANGED <<persisted, hasIndexedDB, dbPromise, promisesCreated, openRequests, store, calls,
                   clock, generated, faults>>
    /\ UNCHANGED <<backupVars, restoreVars, authVars, auxVars>>

\* request.onsuccess (lines 57-63)
OnOpenSuccess ==
    /\ dbPromise.state = "pending"
    /\ dbVersion = DB_VERSION
    /\ dbPromise' = [dbPromise EXCEPT !.state = "resolved"]
    /\ UNCHANGED <<persisted, hasIndexedDB, dbVersion, objectStoreNames, promisesCreated, openRequests,
                   store, calls, clock, generated, faults>>
    /\ UNCHANGED <<backupVars, restoreVars, authVars, auxVars>>

\* request.onerror (lines 65-67)
OnOpenError ==
    /\ dbPromise.state = "pending"
    /\ faults < MaxFaults
    /\ faults' = faults + 1
    /\ dbPromise' = [dbPromise EXCEPT !.state = "rejected", !.error = "OpenError"]
    /\ UNCHANGED <<persisted, hasIndexedDB, dbVersion, objectStoreNames, promisesCreated, openRequests,
                   store, calls, clock, generated>>
    /\ UNCHANGED <<backupVars, restoreVars, authVars, auxVars>>

\* the pending request of call c succeeds
RequestSuccess ==
    \E c \in CallIds :
        /\ ~MicrotaskPending
        /\ calls[c].pc = "request"
        /\ calls[c].txState = "active"
        /\ CanRun(c)
        /\ calls' = [calls EXCEPT ![c] = RequestSucceeded(@)]
        /\ UNCHANGED <<persisted, hasIndexedDB, dbVersion, objectStoreNames, dbPromise, promisesCreated,
                       openRequests, store, clock, generated, faults>>
        /\ UNCHANGED <<backupVars, restoreVars, authVars, auxVars>>

\* the pending request of call c fails with an error of its own
RequestError ==
    \E c \in CallIds :
        /\ ~MicrotaskPending
        /\ calls[c].pc = "request"
        /\ calls[c].txState = "active"
        /\ CanRun(c)
        /\ faults < MaxFaults
        /\ faults' = faults + 1
        /\ calls' = [calls EXCEPT ![c] =
                        BodyRejected([@ EXCEPT !.reqFailed = "UnknownError"], "UnknownError")]
        /\ UNCHANGED <<persisted, hasIndexedDB, dbVersion, objectStoreNames, dbPromise, promisesCreated,
                       openRequests, store, clock, generated>>
        /\ UNCHANGED <<backupVars, restoreVars, authVars, auxVars>>

\* the environment aborts the transaction of call c while a request of its body
\* is pending (the connection is force-closed): the transaction finishes and the
\* pending request is queued an error event
EnvAbort ==
    \E c \in CallIds :
        /\ ~MicrotaskPending
        /\ calls[c].pc = "request"
        /\ calls[c].txState = "active"
        /\ faults < MaxFaults
        /\ faults' = faults + 1
        /\ calls' = [calls EXCEPT ![c] =
                        [@ EXCEPT !.pc = "requestAborted", !.txState = "finished",
                                  !.txResult = "aborted", !.txError = Val("AbortError"),
                                  !.writes = Undefined]]
        /\ UNCHANGED <<persisted, hasIndexedDB, dbVersion, objectStoreNames, dbPromise, promisesCreated,
                       openRequests, store, clock, generated>>
        /\ UNCHANGED <<backupVars, restoreVars, authVars, auxVars>>

\* the error event of a request of an aborted transaction is delivered
AbortErrorDelivered ==
    \E c \in CallIds :
        /\ ~MicrotaskPending
        /\ calls[c].pc = "requestAborted"
        /\ calls' = [calls EXCEPT ![c] =
                        BodyRejected([@ EXCEPT !.reqFailed = "AbortError"], "AbortError")]
        /\ UNCHANGED <<persisted, hasIndexedDB, dbVersion, objectStoreNames, dbPromise, promisesCreated,
                       openRequests, store, clock, generated, faults>>
        /\ UNCHANGED <<backupVars, restoreVars, authVars, auxVars>>

\* the transaction of call c commits and fires complete
TxComplete ==
    \E c \in CallIds :
        /\ ~MicrotaskPending
        /\ calls[c].pc = "bodyDone"
        /\ calls[c].txState = "active"
        /\ CanRun(c)
        /\ store' = View(calls[c])
        /\ calls' = [calls EXCEPT ![c] =
                        OnComplete([@ EXCEPT !.txState = "finished", !.txResult = "committed",
                                             !.writes = Undefined])]
        /\ UNCHANGED <<persisted, hasIndexedDB, dbVersion, objectStoreNames, dbPromise, promisesCreated,
                       openRequests, clock, generated, faults>>
        /\ UNCHANGED <<backupVars, restoreVars, authVars, auxVars>>

\* the transaction of call c aborts after its body succeeded (commit failure
\* with tx.error set, or an abort that leaves tx.error null)
TxAbortAfterBody ==
    \E c \in CallIds, e \in {Undefined, Val("QuotaExceededError")} :
        /\ ~MicrotaskPending
        /\ calls[c].pc = "bodyDone"
        /\ calls[c].txState = "active"
        /\ faults < MaxFaults
        /\ faults' = faults + 1
        /\ calls' = [calls EXCEPT ![c] =
                        OnAbort([@ EXCEPT !.txState = "finished", !.txResult = "aborted",
                                          !.txError = e, !.writes = Undefined])]
        /\ UNCHANGED <<persisted, hasIndexedDB, dbVersion, objectStoreNames, dbPromise, promisesCreated,
                       openRequests, store, clock, generated>>
        /\ UNCHANGED <<backupVars, restoreVars, authVars, auxVars>>

StoreEvents ==
    \/ DbContinue
    \/ OnUpgradeNeeded
    \/ OnOpenSuccess
    \/ OnOpenError
    \/ RequestSuccess
    \/ RequestError
    \/ EnvAbort
    \/ AbortErrorDelivered
    \/ TxComplete
    \/ TxAbortAfterBody

(***************************************************************************)
(* Backup utility: documents, restoreBackup.                               *)
(***************************************************************************)
Users == {"u1", "u2"}

\* documents as the editor stores them; a document id belongs to one owner
StoredDocs ==
    << [id |-> "d1", userId |-> "u1", title |-> "old"],
       [id |-> "d2", userId |-> "u2", title |-> "old"] >>

\* the documents a backup file may hold
BundleDocs ==
    { [id |-> "d1", userId |-> "u1", title |-> "new"],
      [id |-> "d2", userId |-> "u2", title |-> "new"],
      [id |-> "d3", userId |-> "u1", title |-> "new"],
      [id |-> "d4", userId |-> "u3", title |-> "new"] }

RECURSIVE SeqsUpTo(_, _)
SeqsUpTo(S, n) ==
    IF n = 0 THEN {<<>>}
    ELSE SeqsUpTo(S, n - 1) \cup {Append(q, x) : q \in SeqsUpTo(S, n - 1), x \in S}

Bundles == {[version |-> "1.0", timestamp |-> 0, documents |-> ds] : ds \in SeqsUpTo(BundleDocs, MaxDocs)}

\* getDocuments: the stored documents
GetDocuments(docs) == docs

\* saveDocument: the document replaces the stored one with its id, or is added
SaveDocument(docs, doc) ==
    IF \E i \in 1..Len(docs) : docs[i].id = doc.id
    THEN [i \in 1..Len(docs) |-> IF docs[i].id = doc.id THEN doc ELSE docs[i]]
    ELSE Append(docs, doc)

\* createBackup (lines 12-19)
CreateBackup(docs, now) ==
    [version |-> "1.0", timestamp |-> now, documents |-> GetDocuments(docs)]

\* mutation of RestoreMatches: every document of the bundle is restored
RestoreMatches_Any(doc, userId) == TRUE

\* restoreBackup line 59
RestoreMatches(doc, userId) == doc.userId = userId

\* restoreBackup lines 57-62: forEach over backup.documents from index i; st holds
\* the stored documents and the saveDocument calls made
RECURSIVE RestoreFrom(_, _, _, _)
RestoreFrom(docs, i, userId, st) ==
    IF i > Len(docs) THEN st
    ELSE RestoreFrom(docs, i + 1, userId,
            IF RestoreMatches(docs[i], userId)
            THEN [documents |-> SaveDocument(st.documents, docs[i]),
                  saveCalls |-> Append(st.saveCalls, docs[i])]
            ELSE st)

NotRestored == [done |-> FALSE, backup |-> [version |-> "1.0", timestamp |-> 0, documents |-> <<>>],
                userId |-> "", before |-> <<>>, saveCalls |-> <<>>]

RestoreBackup ==
    \E backup \in Bundles, userId \in Users :
        LET st == RestoreFrom(backup.documents, 1, userId,
                              [documents |-> documents, saveCalls |-> <<>>])
        IN /\ documents' = st.documents
           /\ restored' = [done |-> TRUE, backup |-> backup, userId |-> userId,
                           before |-> documents, saveCalls |-> st.saveCalls]
           /\ UNCHANGED <<storeVars, backupVars, authVars, auxVars>>

(***************************************************************************)
(* Backup utility: importBackup / importDocument.                          *)
(***************************************************************************)
JStr(str) == <<"string", str>>
JArr == <<"array">>

\* what a field of a JSON object may hold; Undefined: the field is absent
FieldValues == {Undefined, Null, JStr(""), JStr("x"), JArr}

BackupFields == {"version", "documents"}
DocumentFields == {"id", "title", "content"}

\* the text of a file, by what it denotes
Garbage(names) == [kind |-> "garbage", fields |-> [n \in names |-> Undefined]]
JsonNull(names) == [kind |-> "null", fields |-> [n \in names |-> Undefined]]
JsonNumber(names) == [kind |-> "number", fields |-> [n \in names |-> Undefined]]
JsonObjects(names) == {[kind |-> "object", fields |-> f] : f \in [names -> FieldValues]}

Texts(names) == {Garbage(names), JsonNull(names), JsonNumber(names)} \cup JsonObjects(names)

\* a file: whether the reader can read it, and its text
Files(names) ==
    {[readable |-> TRUE, text |-> t] : t \in Texts(names)}
        \cup {[readable |-> FALSE, text |-> Garbage(names)]}

\* JSON.parse throws a SyntaxError
JsonParseThrows(text) == text.kind = "garbage"

\* data.name throws a TypeError
PropertyReadThrows(data) == data.kind = "null"

\* data.name
Property(data, name) == IF data.kind = "object" THEN data.fields[name] ELSE Undefined

\* !value
Falsy(value) == value \in {Undefined, Null, JStr("")}

\* mutation of MissingField: the shape is not validated
MissingField_Never(data, names) == FALSE

\* lines 42 / 133: !data.a || !data.b ...
MissingField(data, names) == \E n \in names : Falsy(Property(data, n))

\* reader.onload (lines 39-49, 130-140)
OnLoad(call, names, message) ==
    LET text == call.file.text IN
    IF JsonParseThrows(text)
    THEN [call EXCEPT !.pc = "settled", !.settle = "rejected", !.error = "SyntaxError"]
    ELSE IF PropertyReadThrows(text)
    THEN [call EXCEPT !.pc = "settled", !.settle = "rejected", !.error = "TypeError"]
    ELSE IF MissingField(text, names)
    THEN [call EXCEPT !.pc = "settled", !.settle = "rejected", !.error = message]
    ELSE [call EXCEPT !.pc = "settled", !.settle = "resolved", !.value = Val(text)]

\* reader.onerror (lines 50, 141)
OnError(call) ==
    [call EXCEPT !.pc = "settled", !.settle = "rejected", !.error = "Failed to read file"]

NewImport(fn, file) ==
    [fn |-> fn, file |-> file, pc |-> "reading", settle |-> "pending",
     value |-> Undefined, error |-> ""]

RequiredFields(fn) == IF fn = "importBackup" THEN BackupFields ELSE DocumentFields

FormatError(fn) ==
    IF fn = "importBackup" THEN "Invalid backup file format" ELSE "Invalid document file format"

\* importBackup (lines 36-53) up to reader.readAsText(file)
ImportBackup ==
    \E file \in Files(BackupFields) :
        /\ Len(imports) < MaxImports
        /\ imports' = Append(imports, NewImport("importBackup", file))
        /\ UNCHANGED <<storeVars, backupVars, restoreVars, authVars, codecVars, hookVars>>

\* importDocument (lines 127-144) up to reader.readAsText(file)
ImportDocument ==
    \E file \in Files(DocumentFields) :
        /\ Len(imports) < MaxImports
        /\ imports' = Append(imports, NewImport("importDocument", file))
        /\ UNCHANGED <<storeVars, backupVars, restoreVars, authVars, codecVars, hookVars>>

\* the reader's load event
ReaderLoad ==
    \E c \in 1..Len(imports) :
        /\ imports[c].pc = "reading"
        /\ imports[c].file.readable
        /\ imports' = [imports EXCEPT ![c] =
                           OnLoad(@, RequiredFields(@.fn), FormatError(@.fn))]
        /\ UNCHANGED <<storeVars, backupVars, restoreVars, authVars, codecVars, hookVars>>

\* the reader's error event
ReaderError ==
    \E c \in 1..Len(imports) :
        /\ imports[c].pc = "reading"
        /\ ~imports[c].file.readable
        /\ imports' = [imports EXCEPT ![c] = OnError(@)]
        /\ UNCHANGED <<storeVars, backupVars, restoreVars, authVars, codecVars, hookVars>>

(***************************************************************************)
(* Backup utility: the auto-backup timer.                                  *)
(***************************************************************************)
AutoBackupPrefix == "auto_backup_"

\* String(n): the decimal digits of n
RECURSIVE Digits(_)
Digits(n) == IF n < 10 THEN <<n>> ELSE Append(Digits(n \div 10), n % 10)

\* parseInt of a digit string
RECURSIVE ParseInt(_)
ParseInt(ds) == IF ds = <<>> THEN 0 ELSE 10 * ParseInt(SubSeq(ds, 1, Len(ds) - 1)) + ds[Len(ds)]

\* a localStorage key: its prefix and the digits that follow it
BackupKey(now) == <<AutoBackupPrefix, Digits(now)>>

\* k.startsWith('auto_backup_')
IsAutoBackupKey(k) == k[1] = AutoBackupPrefix

\* a < b for strings of digits (comparison by code unit, as Array.prototype.sort does)
RECURSIVE StrLess(_, _)
StrLess(a, b) ==
    IF a = <<>> THEN b # <<>>
    ELSE IF b = <<>> THEN FALSE
    ELSE IF a[1] # b[1] THEN a[1] < b[1]
    ELSE StrLess(Tail(a), Tail(b))

\* keys.sort(): the keys (all with the auto-backup prefix) in ascending string order
RECURSIVE SortKeys(_)
SortKeys(S) ==
    IF S = {} THEN <<>>
    ELSE LET m == CHOOSE k \in S : \A j \in S \ {k} : StrLess(k[2], j[2])
         IN <<m>> \o SortKeys(S \ {m})

SetItem(ls, k, v) == [x \in (DOMAIN ls) \cup {k} |-> IF x = k THEN v ELSE ls[x]]
RemoveItems(ls, ks) == [x \in (DOMAIN ls) \ ks |-> ls[x]]

\* the timestamps of the stored auto-backup snapshots
StoredSnapshots == {ParseInt(k[2]) : k \in {j \in DOMAIN localStorage : IsAutoBackupKey(j)}}

\* the interval callback (lines 71-89) run at time now
TickStorage(ls, docs, now) ==
    LET ls1 == SetItem(ls, BackupKey(now), CreateBackup(docs, now))
        autoBackups == SortKeys({k \in DOMAIN ls1 : IsAutoBackupKey(k)})
        n == Len(autoBackups)
    IN IF n > MaxAutoBackups
       THEN RemoveItems(ls1, {autoBackups[i] : i \in 1..(n - MaxAutoBackups)})
       ELSE ls1

\* mutation of StopTimers: the previous timer is left running
StopTimers_Keep(ts, handle) == ts

\* stopAutoBackup lines 93-96: clearInterval(autoBackupInterval)
StopTimers(ts, handle) ==
    IF handle # 0 THEN [t \in (DOMAIN ts) \ {handle} |-> ts[t]] ELSE ts

\* startAutoBackup (lines 68-90)
StartAutoBackup ==
    \E intervalMinutes \in {1, DefaultIntervalMinutes} :
        /\ timersCreated < MaxTimers
        /\ timersCreated' = timersCreated + 1
        /\ timers' = LET ts == StopTimers(timers, autoBackupInterval)
                     IN [t \in (DOMAIN ts) \cup {timersCreated'} |->
                            IF t = timersCreated' THEN intervalMinutes * 60 * 1000 ELSE ts[t]]
        /\ autoBackupInterval' = timersCreated'
        /\ UNCHANGED <<localStorage, written, lastTick, clock>>
        /\ UNCHANGED <<hasIndexedDB, dbVersion, objectStoreNames, dbPromise, promisesCreated,
                       openRequests, persisted, store, calls, generated, faults>>
        /\ UNCHANGED <<restoreVars, authVars, auxVars>>

\* stopAutoBackup (lines 92-97)
StopAutoBackup ==
    /\ timers' = StopTimers(timers, autoBackupInterval)
    /\ autoBackupInterval' = 0
    /\ UNCHANGED <<localStorage, timersCreated, written, lastTick, clock>>
    /\ UNCHANGED <<hasIndexedDB, dbVersion, objectStoreNames, dbPromise, promisesCreated,
                   openRequests, persisted, store, calls, generated, faults>>
    /\ UNCHANGED <<restoreVars, authVars, auxVars>>

\* an active timer fires after its interval has passed
AutoBackupTick ==
    \E t \in DOMAIN timers, d \in 1..MaxAdvance :
        /\ clock + d <= MaxClock
        /\ clock' = clock + d
        /\ localStorage' = TickStorage(localStorage, documents, clock')
        /\ written' = written \cup {clock'}
        /\ lastTick' = [timer |-> t, handle |-> autoBackupInterval]
        /\ UNCHANGED <<autoBackupInterval, timers, timersCreated>>
        /\ UNCHANGED <<hasIndexedDB, dbVersion, objectStoreNames, dbPromise, promisesCreated,
                       openRequests, persisted, store, calls, generated, faults>>
        /\ UNCHANGED <<restoreVars, authVars, auxVars>>

(***************************************************************************)
(* Auth hook: signIn / signUp (bounded retry on transient failures).       *)
(***************************************************************************)
UpperLetters == <<"A", "B", "C", "D", "E", "F", "G", "H", "I", "J", "K", "L", "M",
                  "N", "O", "P", "Q", "R", "S", "T", "U", "V", "W", "X", "Y", "Z">>
LowerLetters == <<"a", "b", "c", "d", "e", "f", "g", "h", "i", "j", "k", "l", "m",
                  "n", "o", "p", "q", "r", "s", "t", "u", "v", "w", "x", "y", "z">>

\* case folding of one character (the regex's i flag)
Lower(ch) ==
    IF \E i \in 1..Len(UpperLetters) : UpperLetters[i] = ch
    THEN LowerLetters[CHOOSE i \in 1..Len(UpperLetters) : UpperLetters[i] = ch]
    ELSE ch

LowerAll(str) == [i \in 1..Len(str) |-> Lower(str[i])]

\* needle occurs in hay
Contains(hay, needle) ==
    \E i \in 1..(Len(hay) - Len(needle) + 1) : SubSeq(hay, i, i + Len(needle) - 1) = needle

\* the alternatives of /Service Unavailable|network|fetch failed/i
TransientPatterns ==
    { <<"S", "e", "r", "v", "i", "c", "e", " ", "U", "n", "a", "v", "a", "i", "l", "a", "b", "l", "e">>,
      <<"n", "e", "t", "w", "o", "r", "k">>,
      <<"f", "e", "t", "c", "h", " ", "f", "a", "i", "l", "e", "d">> }

\* /Service Unavailable|network|fetch failed/i.test(message)
TransientPatternTest(message) ==
    \E pat \in TransientPatterns : Contains(LowerAll(message), LowerAll(pat))

\* the errors the backend call may return: status and message
BackendErrors == {"Upstream503", "NetworkError", "FetchFailed", "InvalidCredentials", "FailedToFetch"}

ErrorStatus(e) ==
    CASE e = "Upstream503" -> 503
      [] e = "NetworkError" -> 0
      [] e = "FetchFailed" -> 500
      [] e = "InvalidCredentials" -> 400
      [] e = "FailedToFetch" -> 0

ErrorMessage(e) ==
    CASE e = "Upstream503" -> <<"u", "p", "s", "t", "r", "e", "a", "m", " ", "e", "r", "r", "o", "r">>
      [] e = "NetworkError" -> <<"N", "e", "t", "w", "o", "r", "k", "E", "r", "r", "o", "r", " ", "w", "h", "e", "n", " ", "f", "e", "t", "c", "h", "i", "n", "g">>
      [] e = "FetchFailed" -> <<"T", "y", "p", "e", "E", "r", "r", "o", "r", ":", " ", "f", "e", "t", "c", "h", " ", "f", "a", "i", "l", "e", "d">>
      [] e = "InvalidCredentials" -> <<"I", "n", "v", "a", "l", "i", "d", " ", "l", "o", "g", "i", "n", " ", "c", "r", "e", "d", "e", "n", "t", "i", "a", "l", "s">>
      [] e = "FailedToFetch" -> <<"F", "a", "i", "l", "e", "d", " ", "t", "o", " ", "f", "e", "t", "c", "h">>

\* what one backend call may do: return data, return an error, or throw
BackendOutcomes == {"ok", "throw"} \cup BackendErrors

\* mutation of IsTransient: every failure is retried
IsTransient_Always(e) == TRUE

\* lines 47 / 77: the failure looks transient
IsTransient(e) ==
    ErrorStatus(e) = StatusServiceUnavailable \/ TransientPatternTest(ErrorMessage(e))

RECURSIVE Pow2(_)
Pow2(n) == IF n = 0 THEN 1 ELSE 2 * Pow2(n - 1)

\* signIn / signUp up to the first backend call (lines 32-41, 57-72)
NewAuthCall(kind) ==
    [kind |-> kind, attempt |-> 0, lastError |-> "", pc |-> "calling",
     backendCalls |-> 1,   \* calls made to the backend
     log |-> <<>>,         \* what the backend calls did
     delayMs |-> 0,
     result |-> [data |-> "", error |-> ""]]

\* lines 43-51 / 74-81: the awaited backend call ended with outcome
AttemptEnded(call, outcome) ==
    CASE outcome = "throw" ->
            [call EXCEPT !.pc = "rejected", !.log = Append(@, outcome)]
      [] outcome = "ok" ->
            [call EXCEPT !.pc = "returned", !.log = Append(@, outcome),
                         !.result = [data |-> "session", error |-> "null"]]
      [] OTHER ->
            IF IsTransient(outcome)
            THEN [call EXCEPT !.pc = "delay", !.log = Append(@, outcome),
                              !.lastError = outcome,
                              !.delayMs = BackoffBaseMs * Pow2(call.attempt)]
            ELSE [call EXCEPT !.pc = "returned", !.log = Append(@, outcome),
                              !.lastError = outcome,
                              !.result = [data |-> "null", error |-> outcome]]

\* the delay ended: `continue`, the loop test, and the next backend call or line 54 / 84
AfterDelay(call) ==
    IF call.attempt + 1 < MaxAttempts
    THEN [call EXCEPT !.attempt = @ + 1, !.pc = "calling", !.backendCalls = @ + 1,
                      !.delayMs = 0]
    ELSE [call EXCEPT !.attempt = @ + 1, !.pc = "returned", !.delayMs = 0,
                      !.result = [data |-> "null", error |-> call.lastError]]

SignIn ==
    /\ Len(authCalls) < MaxAuthCalls
    /\ authCalls' = Append(authCalls, NewAuthCall("signIn"))
    /\ UNCHANGED <<storeVars, backupVars, restoreVars, auxVars>>

SignUp ==
    /\ Len(authCalls) < MaxAuthCalls
    /\ authCalls' = Append(authCalls, NewAuthCall("signUp"))
    /\ UNCHANGED <<storeVars, backupVars, restoreVars, auxVars>>

BackendResponds ==
    \E c \in 1..Len(authCalls), outcome \in BackendOutcomes :
        /\ authCalls[c].pc = "calling"
        /\ authCalls' = [authCalls EXCEPT ![c] = AttemptEnded(@, outcome)]
        /\ UNCHANGED <<storeVars, backupVars, restoreVars, auxVars>>

DelayElapsed ==
    \E c \in 1..Len(authCalls) :
        /\ authCalls[c].pc = "delay"
        /\ authCalls' = [authCalls EXCEPT ![c] = AfterDelay(@)]
        /\ UNCHANGED <<storeVars, backupVars, restoreVars, auxVars>>

(***************************************************************************)
(* Auth hook: the effect that tracks the session (lines 10-28).            *)
(***************************************************************************)
NoSession == "null"
NoUser == "null"
Sessions == {NoSession, "session1", "session2"}

\* session?.user ?? null
SessionUser(session) ==
    CASE session = NoSession -> NoUser
      [] session = "session1" -> "user1"
      [] session = "session2" -> "user2"

\* the three setters both callbacks call (lines 14-16, 22-24)
SetSessionState(h, session) ==
    [h EXCEPT !.session = session, !.user = SessionUser(session), !.loading = FALSE,
              !.everLoaded = TRUE]

\* the callback of onAuthStateChange (lines 13-17)
OnAuthStateChange(h, session) == SetSessionState(h, session)

\* the callback of getSession().then (lines 21-25)
OnGetSession(h, session) == SetSessionState(h, session)

\* useState (lines 6-8), before the effect has run
HookIdle ==
    /\ hook = [mounted |-> "no", subscribed |-> FALSE, session |-> NoSession,
               user |-> NoUser, loading |-> TRUE, everLoaded |-> FALSE]
    /\ authBackend = [session |-> NoSession, changes |-> 0, getSession |-> "idle",
                      snapshot |-> NoSession, queue |-> <<>>, initialEmitted |-> FALSE]

\* the effect runs: subscribe (line 12), then call getSession (line 21)
Mount ==
    /\ hook.mounted = "no"
    /\ hook' = [hook EXCEPT !.mounted = "yes", !.subscribed = TRUE]
    /\ authBackend' = [authBackend EXCEPT !.getSession = "called"]
    /\ UNCHANGED <<storeVars, backupVars, restoreVars, authVars, importVars, codecVars>>

\* the client queues the subscription's initial event with the session it holds
EmitInitialSession ==
    /\ hook.subscribed
    /\ ~authBackend.initialEmitted
    /\ authBackend' = [authBackend EXCEPT !.initialEmitted = TRUE,
                                          !.queue = Append(@, authBackend.session)]
    /\ UNCHANGED hook
    /\ UNCHANGED <<storeVars, backupVars, restoreVars, authVars, importVars, codecVars>>

\* the client's session changes (sign-in, sign-out, refresh): subscribers are
\* queued an event with the new session
SessionChange ==
    \E s \in Sessions \ {authBackend.session} :
        /\ authBackend.changes < MaxSessionChanges
        /\ authBackend' = [authBackend EXCEPT
                              !.session = s, !.changes = @ + 1,
                              !.queue = IF hook.subscribed THEN Append(@, s) ELSE @]
        /\ UNCHANGED hook
        /\ UNCHANGED <<storeVars, backupVars, restoreVars, authVars, importVars, codecVars>>

\* the next event reaches the subscribed callback
DeliverEvent ==
    /\ hook.subscribed
    /\ authBackend.queue # <<>>
    /\ hook' = OnAuthStateChange(hook, Head(authBackend.queue))
    /\ authBackend' = [authBackend EXCEPT !.queue = Tail(@)]
    /\ UNCHANGED <<storeVars, backupVars, restoreVars, authVars, importVars, codecVars>>

\* getSession reads the session the client holds
GetSessionRead ==
    /\ authBackend.getSession = "called"
    /\ authBackend' = [authBackend EXCEPT !.getSession = "read", !.snapshot = authBackend.session]
    /\ UNCHANGED hook
    /\ UNCHANGED <<storeVars, backupVars, restoreVars, authVars, importVars, codecVars>>

\* the promise of getSession resolves and its then-callback runs
GetSessionResolved ==
    /\ authBackend.getSession = "read"
    /\ hook' = OnGetSession(hook, authBackend.snapshot)
    /\ authBackend' = [authBackend EXCEPT !.getSession = "delivered"]
    /\ UNCHANGED <<storeVars, backupVars, restoreVars, authVars, importVars, codecVars>>

\* the effect's cleanup (line 27): subscription.unsubscribe()
Unmount ==
    /\ hook.mounted = "yes"
    /\ hook' = [hook EXCEPT !.mounted = "unmounted", !.subscribed = FALSE]
    /\ authBackend' = [authBackend EXCEPT !.queue = <<>>]
    /\ UNCHANGED <<storeVars, backupVars, restoreVars, authVars, importVars, codecVars>>

(***************************************************************************)
(* Asset store: blobToDataUrl / dataUrlToBlob.                             *)
(***************************************************************************)
DigitChars == <<"0", "1", "2", "3", "4", "5", "6", "7", "8", "9">>

\* the base64 alphabet; the character of sextet v is Base64Alphabet[v + 1]
Base64Alphabet == UpperLetters \o LowerLetters \o DigitChars \o <<"+", "/">>

ByteValues == {0, 77, 255}

\* the MIME types of the blobs: none, plain, with a parameter, with a
\* parameter that holds a comma
BlobTypes ==
    { <<>>,
      <<"i", "m", "a", "g", "e", "/", "p", "n", "g">>,
      <<"t", "e", "x", "t", "/", "p", "l", "a", "i", "n", ";", "c", "h", "a", "r", "s", "e", "t", "=", "u", "t", "f", "-", "8">>,
      <<"v", "i", "d", "e", "o", "/", "w", "e", "b", "m", ";", "c", "o", "d", "e", "c", "s", "=", "v", "p", "8", ",", "o", "p", "u", "s">> }

CodecBlobs == {[type |-> t, bytes |-> b] : t \in BlobTypes, b \in SeqsUpTo(ByteValues, MaxBlobSize)}

DefaultMime == <<"a", "p", "p", "l", "i", "c", "a", "t", "i", "o", "n", "/", "o", "c", "t", "e", "t", "-", "s", "t", "r", "e", "a", "m">>

\* the base64 text of the bytes (FileReader.readAsDataURL)
RECURSIVE Base64Encode(_)
Base64Encode(bytes) ==
    LET ch(v) == Base64Alphabet[v + 1] IN
    IF Len(bytes) = 0 THEN <<>>
    ELSE IF Len(bytes) = 1
    THEN <<ch(bytes[1] \div 4), ch((bytes[1] % 4) * 16), "=", "=">>
    ELSE IF Len(bytes) = 2
    THEN <<ch(bytes[1] \div 4), ch((bytes[1] % 4) * 16 + bytes[2] \div 16),
           ch((bytes[2] % 16) * 4), "=">>
    ELSE <<ch(bytes[1] \div 4), ch((bytes[1] % 4) * 16 + bytes[2] \div 16),
           ch((bytes[2] % 16) * 4 + bytes[3] \div 64), ch(bytes[3] % 64)>>
         \o Base64Encode(SubSeq(bytes, 4, Len(bytes)))

\* the media type FileReader.readAsDataURL writes for a blob of this type: the
\* type; for a blob without type, none or the default one, by the browser
ReaderMediaTypes(type) == IF type = <<>> THEN {<<>>, DefaultMime} ELSE {type}

\* the data URL readAsDataURL produces (lines 97-103)
BlobToDataUrl(blob, mediaType) ==
    <<"d", "a", "t", "a", ":">> \o mediaType \o <<";", "b", "a", "s", "e", "6", "4", ",">> \o Base64Encode(blob.bytes)

\* str.split(sep)
RECURSIVE Split(_, _)
Split(str, sep) ==
    IF \E i \in 1..Len(str) : str[i] = sep
    THEN LET i == CHOOSE j \in 1..Len(str) : str[j] = sep /\ \A k \in 1..(j - 1) : str[k] # sep
         IN <<SubSeq(str, 1, i - 1)>> \o Split(SubSeq(str, i + 1, Len(str)), sep)
    ELSE <<str>>

EndsWith(str, suffix) ==
    Len(str) >= Len(suffix) /\ SubSeq(str, Len(str) - Len(suffix) + 1, Len(str)) = suffix

\* /data:(.*?)(;base64)?$/i.exec(meta)?.[1]: Undefined when there is no match
MimeMatch(meta) ==
    LET prefix == <<"d", "a", "t", "a", ":">>
        starts == {i \in 1..(Len(meta) - Len(prefix) + 1) :
                      LowerAll(SubSeq(meta, i, i + Len(prefix) - 1)) = prefix}
    IN IF starts = {} THEN Undefined
       ELSE LET i == CHOOSE j \in starts : \A k \in starts : j <= k
                rest == SubSeq(meta, i + Len(prefix), Len(meta))
            IN IF EndsWith(LowerAll(rest), <<";", "b", "a", "s", "e", "6", "4">>)
               THEN Val(SubSeq(rest, 1, Len(rest) - Len(<<";", "b", "a", "s", "e", "6", "4">>)))
               ELSE Val(rest)

\* the sextet of a base64 character
Sextet(c) == (CHOOSE i \in 1..Len(Base64Alphabet) : Base64Alphabet[i] = c) - 1

RECURSIVE DecodeSextets(_)
DecodeSextets(cs) ==
    IF Len(cs) < 2 THEN <<>>
    ELSE LET a == Sextet(cs[1])
             b == Sextet(cs[2])
         IN IF Len(cs) = 2 THEN <<a * 4 + b \div 16>>
            ELSE LET c == Sextet(cs[3])
                 IN IF Len(cs) = 3 THEN <<a * 4 + b \div 16, (b % 16) * 16 + c \div 4>>
                    ELSE <<a * 4 + b \div 16, (b % 16) * 16 + c \div 4,
                           (c % 4) * 64 + Sextet(cs[4])>>
                         \o DecodeSextets(SubSeq(cs, 5, Len(cs)))

\* atob: the padding is dropped when the length is a multiple of 4
StripPadding(cs) ==
    IF Len(cs) % 4 = 0 /\ Len(cs) > 0 /\ cs[Len(cs)] = "="
    THEN IF cs[Len(cs) - 1] = "=" THEN SubSeq(cs, 1, Len(cs) - 2)
         ELSE SubSeq(cs, 1, Len(cs) - 1)
    ELSE cs

\* atob throws InvalidCharacterError
AtobThrows(cs) ==
    LET body == StripPadding(cs)
    IN \/ Len(body) % 4 = 1
       \/ \E i \in 1..Len(body) : \A j \in 1..Len(Base64Alphabet) : Base64Alphabet[j] # body[i]

\* the char codes of atob(cs)
Atob(cs) == DecodeSextets(StripPadding(cs))

\* String(undefined), what atob is given when split yields one part
UndefinedText == <<"u", "n", "d", "e", "f", "i", "n", "e", "d">>

\* dataUrlToBlob (lines 105-116)
DataUrlToBlob(dataUrl) ==
    LET parts == Split(dataUrl, ",")
        meta == parts[1]
        data == IF Len(parts) >= 2 THEN parts[2] ELSE UndefinedText
        mimeMatch == MimeMatch(meta)
        mime == IF mimeMatch = Undefined \/ mimeMatch[2] = <<>> THEN DefaultMime
                ELSE mimeMatch[2]
    IN IF AtobThrows(data)
       THEN [threw |-> TRUE, blob |-> [type |-> <<>>, bytes |-> <<>>]]
       ELSE [threw |-> FALSE, blob |-> [type |-> mime, bytes |-> Atob(data)]]

NoBlob == [type |-> <<>>, bytes |-> <<>>]

\* blobToDataUrl(codec.blob): reader.onloadend resolves with the data URL
EncodeBlob ==
    \E mediaType \in ReaderMediaTypes(codec.blob.type) :
        /\ codec.pc = "blob"
        /\ codec' = [codec EXCEPT !.pc = "dataUrl",
                                  !.dataUrl = BlobToDataUrl(codec.blob, mediaType)]
        /\ UNCHANGED <<storeVars, backupVars, restoreVars, authVars, importVars, hookVars>>

\* dataUrlToBlob(codec.dataUrl)
DecodeDataUrl ==
    /\ codec.pc = "dataUrl"
    /\ LET r == DataUrlToBlob(codec.dataUrl)
       IN codec' = [codec EXCEPT !.pc = IF r.threw THEN "threw" ELSE "decoded",
                                 !.decoded = r.blob]
    /\ UNCHANGED <<storeVars, backupVars, restoreVars, authVars, importVars, hookVars>>

(***************************************************************************)
(* Properties of the asset store.                                          *)
(***************************************************************************)
Max(S) == CHOOSE x \in S : \A y \in S : y <= x

\* the calls issued before call c that resolved and wrote key k
WritersBefore(c, k) ==
    {d \in 1..(c - 1) :
        /\ calls[d].settle = "resolved"
        /\ \/ calls[d].op \in {"save", "delete"} /\ calls[d].id = k
           \/ calls[d].op = "clear"}

\* the record of key k a map would hold when call c runs: that of the last
\* resolved saveAsset for k (the metadata it returned, the blob it was given),
\* null after a resolved deleteAsset / clearAllAssets, else what was persisted
ExpectedAsset(c, k) ==
    IF WritersBefore(c, k) = {}
    THEN Coalesce(persisted[k], Null)
    ELSE LET d == Max(WritersBefore(c, k))
             m == calls[d].value[2]
         IN IF calls[d].op = "save"
            THEN Val([id |-> m.id, name |-> m.name, type |-> m.type, size |-> m.size,
                      createdAt |-> m.createdAt, updatedAt |-> m.updatedAt,
                      blob |-> FileOf(calls[d])])
            ELSE Null

\* the environment made call c fail (open failure, request error, abort)
Faulted(c) ==
    \/ dbPromise.state = "rejected"
    \/ calls[c].reqFailed # ""
    \/ calls[c].txResult = "aborted"

\* C1: the asset store behaves as a map keyed by id: a resolved getAsset(id)
\* yields the record of the last resolved saveAsset for that id (same blob, the
\* metadata saveAsset returned), or null if the id was never saved or was
\* deleted since; getAsset rejects only when the environment failed, never
\* because the id is missing.
C1_AssetStoreIsMap ==
    \A c \in CallIds :
        calls[c].op = "get" =>
            /\ calls[c].settle = "resolved" => calls[c].value = ExpectedAsset(c, calls[c].id)
            /\ calls[c].settle = "rejected" => Faulted(c)

\* a resolved saveAsset followed by a resolved getAsset of the same id that
\* returned the saved blob, or a resolved deleteAsset of a stored id followed by
\* a getAsset that resolved to null
C1_Witness ==
    \E c \in CallIds : \E d \in 1..(c - 1) :
        /\ calls[c].op = "get" /\ calls[c].settle = "resolved"
        /\ calls[d].settle = "resolved" /\ calls[d].id = calls[c].id
        /\ \/ /\ calls[d].op = "save"
              /\ calls[c].value # Null
              /\ calls[c].value[2].blob = FileOf(calls[d])
              /\ Meta(calls[c].value[2]) = calls[d].value[2]
           \/ /\ calls[d].op = "delete"
              /\ persisted[calls[d].id] # Undefined
              /\ calls[c].value = Null

\* C2: a saveAsset with a caller-supplied id and no options.createdAt keeps the
\* createdAt of the record already stored under that id and sets updatedAt to
\* the time of the call (or options.updatedAt); with no such record createdAt
\* is the time of the call.
C2_CreatedAtPreserved ==
    \A c \in CallIds :
        LET o == OptionsOf(calls[c])
            prev == ExpectedAsset(c, calls[c].id)
            m == calls[c].value[2]
        IN (/\ calls[c].op = "save"
            /\ calls[c].settle = "resolved"
            /\ ~IsNullish(o.id)
            /\ IsNullish(o.createdAt))
           => /\ prev # Null =>
                    /\ m.createdAt = prev[2].createdAt
                    /\ m.updatedAt = Coalesce(o.updatedAt, Val(calls[c].now))[2]
              /\ prev = Null => m.createdAt = calls[c].now

\* C3: the promise returned to the caller is resolved only once the enclosing
\* transaction has fired complete: never while the transaction is still active
\* after its request succeeded, nor when it aborted.
C3_ResolvedOnlyAfterComplete ==
    \A c \in CallIds :
        calls[c].settle = "resolved" =>
            calls[c].txState = "finished" /\ calls[c].txResult = "committed"

\* a call resolved after its transaction committed while a later call's body is
\* done and its transaction not yet complete
C3_Witness ==
    \E c \in CallIds, d \in CallIds :
        /\ calls[c].settle = "resolved" /\ calls[c].txResult = "committed"
        /\ calls[d].pc = "bodyDone" /\ calls[d].settle = "pending"

\* C4: when a request of the body fails, the transaction is aborted and the
\* caller's promise rejects with that request's own error; the generic
\* messages are used only when the transaction aborts after the body succeeded
\* with tx.error empty.
C4_RequestErrorPropagates ==
    \A c \in CallIds :
        /\ (calls[c].reqFailed # "" /\ calls[c].pc \notin {"request", "requestAborted"}) =>
                /\ calls[c].settle = "rejected"
                /\ calls[c].error = calls[c].reqFailed
                /\ calls[c].txResult = "aborted"
        /\ (calls[c].settle = "rejected"
            /\ calls[c].error \in {"Transaction aborted", "Transaction failed"}) =>
                /\ calls[c].reqFailed = ""
                /\ calls[c].txError = Undefined

\* C5: the database open request is issued at most once: every openDatabase
\* call returns the one memoised promise, also while the open is pending and
\* after it failed, and after a failed open every operation rejects with the
\* open's error without a transaction or a new open attempt.
C5_OpenAtMostOnce ==
    /\ openRequests <= 1
    /\ promisesCreated <= 1
    /\ \A c \in CallIds : calls[c].awaited = 1 /\ dbPromise.id = 1
    /\ dbPromise.state = "rejected" =>
            \A c \in CallIds :
                /\ calls[c].txState = "none"
                /\ Settled(c) => calls[c].settle = "rejected" /\ calls[c].error = dbPromise.error

\* the one open request failed and two operations rejected with its error
C5_Witness ==
    /\ dbPromise.state = "rejected"
    /\ dbPromise.error = "OpenError"
    /\ openRequests = 1
    /\ Len(calls) >= 2
    /\ \A c \in CallIds : calls[c].settle = "rejected" /\ calls[c].error = "OpenError"

\* C6: every issued operation eventually resolves or rejects: as long as an
\* operation's promise is pending, some continuation or database event that
\* advances the store's operations is still to be delivered.
C6_NoCallPendingForever ==
    (\E c \in CallIds : ~Settled(c)) => ENABLED StoreEvents

\* C12 as stated: without indexedDB an operation fails at call time, the error
\* surfacing synchronously: once the call has returned to its caller it has
\* failed with the descriptive error.
C12_SurfacesSynchronously ==
    ~hasIndexedDB =>
        \A c \in CallIds : calls[c].settle = "rejected" /\ calls[c].error = NotSupportedError

\* C12 amended: without indexedDB the call returns a promise that is still
\* pending and rejects with the descriptive error in the continuation of
\* `await openDatabase()`; no open request and no transaction is made, no
\* operation resolves, and the capability test is not retried: the one rejected promise
\* is memoised and every later operation rejects with the same error.
C12_NotSupportedRejects ==
    ~hasIndexedDB =>
        /\ openRequests = 0
        /\ promisesCreated <= 1
        /\ calls # <<>> => dbPromise = [id |-> 1, state |-> "rejected", error |-> NotSupportedError]
        /\ \A c \in CallIds :
              /\ calls[c].txState = "none"
              /\ calls[c].settle # "resolved"
              /\ Settled(c) => calls[c].error = NotSupportedError
              /\ ~Settled(c) => calls[c].pc = "awaitDb" /\ ENABLED DbContinue

\* without indexedDB, two operations rejected with the descriptive error, the
\* second from the memoised promise
C12_Witness ==
    /\ ~hasIndexedDB
    /\ Len(calls) >= 2
    /\ promisesCreated = 1
    /\ \A c \in CallIds : calls[c].settle = "rejected" /\ calls[c].error = NotSupportedError

\* C14: decoding the data URL blobToDataUrl produced for a blob yields a blob
\* of the same size and the same MIME type, also for a blob whose type is
\* empty or carries parameters.
C14_DataUrlRoundTrip ==
    codec.pc \in {"decoded", "threw"} =>
        /\ codec.pc = "decoded"
        /\ Len(codec.decoded.bytes) = Len(codec.blob.bytes)
        /\ codec.decoded.type = codec.blob.type

\* the effect on the store contents of running a call alone, to its end
RunAlone(st, call) ==
    CASE call.op = "save" ->
            [st EXCEPT ![call.id] =
                Val(BuildRecord(call, IF TruthyStr(OptionsOf(call).id) THEN st[call.id]
                                      ELSE Undefined))]
      [] call.op = "delete" -> [st EXCEPT ![call.id] = Undefined]
      [] call.op = "clear" -> EmptyStore
      [] OTHER -> st

RECURSIVE RunInOrder(_, _)
RunInOrder(st, order) ==
    IF order = <<>> THEN st
    ELSE RunInOrder(RunAlone(st, calls[Head(order)]), Tail(order))

\* the orders in which the calls of S can run one after the other
Orders(S) ==
    {p \in [1..Cardinality(S) -> S] : \A i, j \in 1..Cardinality(S) : p[i] = p[j] => i = j}

\* no call is in progress
Quiescent == \A c \in CallIds : calls[c].pc \in {"settled", "catchThrew"}

\* the calls that took effect
ResolvedCalls == {c \in CallIds : calls[c].settle = "resolved"}

\* C15: concurrent calls queue: once no call is in progress the store holds what
\* running the resolved calls one after the other in some order leaves, and
\* the createdAt of a record that existed before the calls is kept when the
\* calls that wrote its key are two or more saveAsset calls that do not pass
\* createdAt.
C15_ConcurrentCallsSerialize ==
    Quiescent =>
        /\ \E order \in Orders(ResolvedCalls) : store = RunInOrder(persisted, order)
        /\ \A k \in CallerIds :
              LET writers == {c \in ResolvedCalls :
                                 \/ calls[c].op \in {"save", "delete"} /\ calls[c].id = k
                                 \/ calls[c].op = "clear"}
              IN (/\ persisted[k] # Undefined
                  /\ Cardinality(writers) >= 2
                  /\ \A c \in writers : /\ calls[c].op = "save"
                                        /\ IsNullish(OptionsOf(calls[c]).createdAt))
                 => /\ store[k] # Undefined
                    /\ store[k][2].createdAt = persisted[k][2].createdAt

(***************************************************************************)
(* Properties of the backup utility.                                       *)
(***************************************************************************)
\* the n largest elements of S
MostRecent(S, n) == {x \in S : Cardinality({y \in S : y > x}) < n}

\* C7: after every auto-backup tick at most 5 entries with the auto-backup prefix
\* remain in localStorage, and they are the snapshots with the largest embedded
\* timestamps among those written (after 6 ticks, the 5 most recent).
C7_KeepsMostRecent ==
    /\ Cardinality({k \in DOMAIN localStorage : IsAutoBackupKey(k)}) <= MaxAutoBackups
    /\ StoredSnapshots = MostRecent(written, MaxAutoBackups)

\* C8: at most one interval timer is active, and it is the one autoBackupInterval
\* holds: startAutoBackup cancelled the one before it; after stopAutoBackup no
\* timer is active and no snapshot can be written; every snapshot was written
\* by the timer that was the current one.
C8_AtMostOneTimer ==
    /\ Cardinality(DOMAIN timers) <= 1
    /\ DOMAIN timers = IF autoBackupInterval = 0 THEN {} ELSE {autoBackupInterval}
    /\ autoBackupInterval = 0 => ~ENABLED AutoBackupTick
    /\ lastTick.timer = lastTick.handle

\* a timer was replaced by a second one, which wrote a snapshot and was stopped
C8_Witness ==
    /\ timersCreated >= 2
    /\ lastTick.timer = 2
    /\ written # {}
    /\ autoBackupInterval = 0

TransientFailures == {"Upstream503", "NetworkError", "FetchFailed"}

\* C10: signIn and signUp make at most 3 calls to the backend; each call after
\* the first follows a transient failure (status 503 or a message matching
\* Service Unavailable / network / fetch failed); a non-transient failure is
\* returned after the call that produced it; a success is returned with error null.
C10_AtMostThreeAttempts ==
    \A c \in 1..Len(authCalls) :
        LET a == authCalls[c]
            n == Len(a.log)
        IN /\ a.backendCalls <= 3
           /\ n <= a.backendCalls
           /\ \A i \in 1..n : i < a.backendCalls => a.log[i] \in TransientFailures
           /\ (n >= 1 /\ a.log[n] \in BackendErrors \ TransientFailures) =>
                 /\ a.pc = "returned"
                 /\ a.backendCalls = n
                 /\ a.result = [data |-> "null", error |-> a.log[n]]
           /\ (n >= 1 /\ a.log[n] = "ok") =>
                 /\ a.pc = "returned"
                 /\ a.backendCalls = n
                 /\ a.result = [data |-> "session", error |-> "null"]

\* two transient failures, then a success on the third attempt
C10_Witness ==
    \E c \in 1..Len(authCalls) :
        /\ authCalls[c].log = <<"Upstream503", "NetworkError", "ok">>
        /\ authCalls[c].pc = "returned"
        /\ authCalls[c].result.error = "null"

\* C11: every failed attempt comes back as the error field of the result; the
\* promise of signIn / signUp never rejects, whether the backend call returned an
\* error or threw; after three transient failures the error is the last one.
C11_FailuresReturnedNeverThrown ==
    \A c \in 1..Len(authCalls) :
        LET a == authCalls[c]
            n == Len(a.log)
        IN /\ a.pc # "rejected"
           /\ (a.pc = "returned" /\ n >= 1 /\ a.log[n] # "ok") =>
                 a.result = [data |-> "null", error |-> a.log[n]]

\* the text is JSON that has every one of the fields
HasFields(text, names) ==
    text.kind = "object" /\ \A n \in names : text.fields[n] # Undefined

\* C13: importBackup resolves, with the parsed content, only when the content is
\* JSON that has a version and a documents field; any other content rejects
\* with an error (unparseable: the parser's; a field missing: the format error)
\* and a file-read error rejects with 'Failed to read file'; importDocument
\* likewise with the fields id, title and content.
C13_ImportValidatesShape ==
    \A c \in 1..Len(imports) :
        LET i == imports[c]
            names == IF i.fn = "importBackup" THEN {"version", "documents"}
                     ELSE {"id", "title", "content"}
            message == IF i.fn = "importBackup" THEN "Invalid backup file format"
                       ELSE "Invalid document file format"
        IN /\ i.settle = "resolved" =>
                 /\ i.file.readable
                 /\ HasFields(i.file.text, names)
                 /\ i.value = Val(i.file.text)
           /\ (i.pc = "settled" /\ i.file.readable /\ ~HasFields(i.file.text, names)) =>
                 /\ i.settle = "rejected"
                 /\ i.error = CASE i.file.text.kind = "garbage" -> "SyntaxError"
                                [] i.file.text.kind = "null" -> "TypeError"
                                [] OTHER -> message
           /\ (i.pc = "settled" /\ ~i.file.readable) =>
                 i.settle = "rejected" /\ i.error = "Failed to read file"

\* an import of an object that lacks a required field was rejected with the
\* format error
C13_Witness ==
    \E c \in 1..Len(imports) :
        /\ imports[c].fn = "importDocument"
        /\ imports[c].file.text.kind = "object"
        /\ imports[c].file.text.fields["title"] = Undefined
        /\ imports[c].file.text.fields["id"] = JStr("x")
        /\ imports[c].error = "Invalid document file format"

(***************************************************************************)
(* Properties of the session effect of useAuth.                            *)
(***************************************************************************)
\* the getSession result and every queued event have reached the component
AllDelivered ==
    /\ hook.mounted = "yes"
    /\ authBackend.getSession = "delivered"
    /\ authBackend.initialEmitted
    /\ authBackend.queue = <<>>

StoreIdle ==
    /\ hasIndexedDB = TRUE
    /\ dbVersion = 0
    /\ objectStoreNames = {}
    /\ dbPromise = NullPromise
    /\ promisesCreated = 0
    /\ openRequests = 0
    /\ persisted = EmptyStore
    /\ store = EmptyStore
    /\ calls = <<>>
    /\ generated = 0
    /\ faults = 0

\* localStorage before any snapshot: an item of the auth client
InitialLocalStorage == [k \in {<<"sb-auth-token", <<>>>>} |-> "token"]

BackupIdle ==
    /\ localStorage = InitialLocalStorage
    /\ autoBackupInterval = 0
    /\ timers = <<>>
    /\ timersCreated = 0
    /\ written = {}
    /\ lastTick = [timer |-> 0, handle |-> 0]

RestoreIdle ==
    /\ documents = StoredDocs
    /\ restored = NotRestored

AuthIdle == authCalls = <<>>

ImportIdle == imports = <<>>

CodecIdle == codec = [pc |-> "idle", blob |-> NoBlob, dataUrl |-> <<>>, decoded |-> NoBlob]

AuxIdle == ImportIdle /\ CodecIdle /\ HookIdle

StoreInit ==
    /\ hasIndexedDB \in BOOLEAN
    /\ dbVersion \in {0, DB_VERSION}
    /\ objectStoreNames = IF dbVersion = 0 THEN {} ELSE {STORE_NAME}
    /\ dbPromise = NullPromise
    /\ promisesCreated = 0
    /\ openRequests = 0
    /\ persisted = IF dbVersion = 0 THEN EmptyStore ELSE OldStore
    /\ store = persisted
    /\ calls = <<>>
    /\ clock = 2
    /\ generated = 0
    /\ faults = 0

StoreNext ==
    \/ SaveAsset
    \/ GetAsset
    \/ DeleteAsset
    \/ ListAllAssets
    \/ ClearAllAssets
    \/ StoreEvents

\* the asset store
Init == StoreInit /\ BackupIdle /\ RestoreIdle /\ AuthIdle /\ AuxIdle

Next == StoreNext

Spec == Init /\ [][Next]_vars

\* the auto-backup timer
BackupInit == StoreIdle /\ clock = BackupStartClock /\ BackupIdle /\ RestoreIdle /\ AuthIdle /\ AuxIdle

BackupNext ==
    \/ StartAutoBackup
    \/ StopAutoBackup
    \/ AutoBackupTick

BackupSpec == BackupInit /\ [][BackupNext]_vars

\* restoreBackup
RestoreInit == StoreIdle /\ clock = 0 /\ BackupIdle /\ RestoreIdle /\ AuthIdle /\ AuxIdle

RestoreNext == RestoreBackup

RestoreSpec == RestoreInit /\ [][RestoreNext]_vars

\* signIn / signUp
AuthInit == StoreIdle /\ clock = 0 /\ BackupIdle /\ RestoreIdle /\ AuthIdle /\ AuxIdle

AuthNext ==
    \/ SignIn
    \/ SignUp
    \/ BackendResponds
    \/ DelayElapsed

AuthSpec == AuthInit /\ [][AuthNext]_vars

\* importBackup / importDocument
ImportInit == StoreIdle /\ clock = 0 /\ BackupIdle /\ RestoreIdle /\ AuthIdle /\ AuxIdle

\* blobToDataUrl / dataUrlToBlob applied to every blob
CodecInit ==
    /\ StoreIdle /\ clock = 0 /\ BackupIdle /\ RestoreIdle /\ AuthIdle /\ ImportIdle /\ HookIdle
    /\ codec \in {[pc |-> "blob", blob |-> b, dataUrl |-> <<>>, decoded |-> NoBlob] : b \in CodecBlobs}

CodecNext ==
    \/ EncodeBlob
    \/ DecodeDataUrl

CodecSpec == CodecInit /\ [][CodecNext]_vars

\* the session effect of useAuth
HookInit == StoreIdle /\ clock = 0 /\ BackupIdle /\ RestoreIdle /\ AuthIdle /\ AuxIdle

HookNext ==
    \/ Mount
    \/ EmitInitialSession
    \/ SessionChange
    \/ DeliverEvent
    \/ GetSessionRead
    \/ GetSessionResolved
    \/ Unmount

HookSpec == HookInit /\ [][HookNext]_vars

ImportNext ==
    \/ ImportBackup
    \/ ImportDocument
    \/ ReaderLoad
    \/ ReaderError

ImportSpec == ImportInit /\ [][ImportNext]_vars

====
